---- MODULE Spec2Model ----
(***************************************************************************)
(* Model of src/bcm/async.rs: the broadcast-manager (BCM) socket handle    *)
(* CanBCMSocket, its request encoders filter_id / filter_delete, read_msg, *)
(* and the futures Stream adapter BcmStream.                               *)
(*                                                                         *)
(* The kernel (socket, fcntl, connect, read, write, close) and the reactor *)
(* (PollEvented) are the environment: every value they can hand back is an *)
(* input of the action that makes the call.                                *)
(***************************************************************************)
EXTENDS Integers, Sequences, FiniteSets, TLC

VARIABLES
    ptrWidth,   \* target_pointer_width of the build: 32 or 64
    phase,      \* "none" | "open" (a CanBCMSocket) | "stream" (a BcmStream) | "dropped"
    sock,       \* the CanBCMSocket value: [fd |-> n], or NoSock
    osFds,      \* the kernel's descriptor table: fd -> [nonblock, if_index]
    opens,      \* number of open_if_nb calls made so far
    closeCalls, \* number of close(2) calls issued on the handle's descriptor
    syscalls,   \* the system calls issued by the most recent operation, in order
    ret,        \* the value the most recent operation returned to its caller
    kq,         \* the socket's receive queue in the kernel (head is read first)
    queued,     \* history: every message the kernel ever queued, in order
    emitted,    \* history: every message poll returned as Ready(Some(_)), in order
    readiness,  \* PollEvented: the reactor reports the handle readable
    interest,   \* PollEvented: the task is scheduled for a read wakeup
    errored,    \* history: some poll of this stream has returned Err
    script,     \* history: the latest polls that follow the three-poll scenario
    woken       \* the task that consumes the stream has been notified to poll

vars == <<ptrWidth, phase, sock, osFds, opens, closeCalls, syscalls, ret,
          kq, queued, emitted, readiness, interest, errored, script, woken>>

(***************************************************************************)
(* Bounds of the model.                                                    *)
(***************************************************************************)
MaxOpens == 1
MaxQueued == 2

(***************************************************************************)
(* Protocol constants.                                                     *)
(***************************************************************************)
MAX_NFRAMES == 256
RX_SETUP == 5
RX_DELETE == 6
RX_TIMEOUT == 11
RX_CHANGED == 12
SETTIMER == 1
RX_FILTER_ID == 32
\* size_of::<CanFrame>() and its alignment; CanFrame is defined in the crate root
CanFrameSize == 16
CanFrameAlign == 4

PointerWidths == {32, 64}

(***************************************************************************)
(* #[repr(C)] layout: fields are placed in order, each at the next offset  *)
(* that is a multiple of its alignment; the struct is padded to a multiple *)
(* of its largest alignment.                                               *)
(***************************************************************************)
AlignUp(off, a) == ((off + a - 1) \div a) * a

u32 == [size |-> 4, align |-> 4]
usize(w) == [size |-> w \div 8, align |-> w \div 8]
\* libc::timeval: { tv_sec: time_t, tv_usec: suseconds_t }, both a C long
timeval(w) == [size |-> 2 * (w \div 8), align |-> w \div 8]
FrameArray == [size |-> MAX_NFRAMES * CanFrameSize, align |-> CanFrameAlign]

RECURSIVE LayoutEnd(_, _)
LayoutEnd(fields, off) ==
    IF fields = <<>> THEN off
    ELSE LayoutEnd(Tail(fields), AlignUp(off, Head(fields).align) + Head(fields).size)

RECURSIVE MaxAlign(_)
MaxAlign(fields) ==
    IF fields = <<>> THEN 1
    ELSE LET m == MaxAlign(Tail(fields))
         IN  IF Head(fields).align > m THEN Head(fields).align ELSE m

size_of(fields) == AlignUp(LayoutEnd(fields, 0), MaxAlign(fields))

\* offset of the i-th field of a #[repr(C)] struct
OffsetOf(fields, i) == AlignUp(LayoutEnd(SubSeq(fields, 1, i - 1), 0), fields[i].align)

\* _opcode, _flags, _count, _ival1, _ival2, _can_id, _nframes
HeadFields(w) == <<u32, u32, u32, timeval(w), timeval(w), u32, u32>>

BcmMsgHead(w) ==
    HeadFields(w) \o (IF w = 32 THEN <<u32>> ELSE <<>>) \o <<FrameArray>>

\* BcmMsgHeadFrameLess without the _pad field of the 32-bit build
BcmMsgHeadFrameLess_NoPad(w) ==
    HeadFields(w)

BcmMsgHeadFrameLess(w) ==
    HeadFields(w) \o (IF w = 32 THEN <<usize(w)>> ELSE <<>>)

TxMsg(w) ==
    <<[size |-> size_of(BcmMsgHeadFrameLess(w)), align |-> MaxAlign(BcmMsgHeadFrameLess(w))],
      FrameArray>>

(***************************************************************************)
(* Results handed back to callers.                                         *)
(***************************************************************************)
NoSock == [fd |-> -1]
Unit == [tag |-> "Unit"]
Ok(v) == [tag |-> "Ok", val |-> v]
Err(e) == [tag |-> "Err", err |-> e]
NoRet == [op |-> "none", res |-> Unit]

\* errno values the kernel may leave behind; io::Error::kind() of each
Errnos == {"EAGAIN", "ENOBUFS"}
ErrorKind(errno) == IF errno = "EAGAIN" THEN "WouldBlock" ELSE "Other"
last_os_error(errno) == [kind |-> ErrorKind(errno), os |-> errno]

IfIndexes == {1, 5}
\* socket(2) returns the lowest descriptor not in use (0, 1, 2 are taken)
FreeFd == CHOOSE n \in 3..(3 + MaxOpens) : n \notin DOMAIN osFds

\* open_if_nb without the check of fcntl's result
open_if_nb_UncheckedFcntl(if_index, sys) ==
    LET c1 == <<[call |-> "socket", fd |-> sys.socket, arg |-> 0]>>
        c3 == c1 \o <<[call |-> "fcntl", fd |-> sys.socket, arg |-> 0],
                      [call |-> "connect", fd |-> sys.socket, arg |-> if_index]>>
    IN  IF sys.socket = -1
        THEN [res |-> Err(last_os_error(sys.errno)), calls |-> c1]
        ELSE IF sys.connect # 0
        THEN [res |-> Err(last_os_error(sys.errno)), calls |-> c3]
        ELSE [res |-> Ok([fd |-> sys.socket]), calls |-> c3]

(***************************************************************************)
(* CanBCMSocket::open_if_nb.  sys holds what the three system calls would  *)
(* return: sys.socket, sys.fcntl, sys.connect, and sys.errno, the errno of *)
(* the one that fails.  The result names the calls made, in order.         *)
(***************************************************************************)
open_if_nb(if_index, sys) ==
    LET c1 == <<[call |-> "socket", fd |-> sys.socket, arg |-> 0]>>
        c2 == Append(c1, [call |-> "fcntl", fd |-> sys.socket, arg |-> 0])
        c3 == Append(c2, [call |-> "connect", fd |-> sys.socket, arg |-> if_index])
    IN  IF sys.socket = -1
        THEN [res |-> Err(last_os_error(sys.errno)), calls |-> c1]
        ELSE IF sys.fcntl = -1
        THEN [res |-> Err(last_os_error(sys.errno)), calls |-> c2]
        ELSE IF sys.connect # 0
        THEN [res |-> Err(last_os_error(sys.errno)), calls |-> c3]
        ELSE [res |-> Ok([fd |-> sys.socket]), calls |-> c3]

\* what the calls open_if_nb made leave in the kernel's descriptor table
RECURSIVE KernelAfter(_, _, _)
KernelAfter(fds, calls, sys) ==
    IF calls = <<>> THEN fds
    ELSE LET c == Head(calls)
             next ==
                 IF c.call = "socket" /\ sys.socket # -1
                 THEN [n \in DOMAIN fds \cup {sys.socket} |->
                          IF n = sys.socket THEN [nonblock |-> FALSE, if_index |-> 0]
                          ELSE fds[n]]
                 ELSE IF c.call = "fcntl" /\ sys.fcntl # -1
                 THEN [fds EXCEPT ![c.fd].nonblock = TRUE]
                 ELSE IF c.call = "connect" /\ sys.connect = 0
                 THEN [fds EXCEPT ![c.fd].if_index = c.arg]
                 ELSE fds
         IN  KernelAfter(next, Tail(calls), sys)

(***************************************************************************)
(* `x as usize` for a signed x: the two's-complement bits of x at the      *)
(* pointer width, as 16-bit limbs, least significant first.                *)
(***************************************************************************)
RECURSIVE Limbs(_, _)
Limbs(x, n) == IF n = 0 THEN <<>> ELSE <<x % 65536>> \o Limbs(x \div 65536, n - 1)

as_usize(x, w) == Limbs(x, w \div 16)

CanIds == {291, 1110, 536870911}

(***************************************************************************)
(* u32 values that need bit 31 are pairs of 16-bit limbs, least            *)
(* significant first; | is the bitwise or.                                 *)
(***************************************************************************)
RECURSIVE BitOr(_, _)
BitOr(a, b) ==
    IF a = 0 THEN b
    ELSE IF b = 0 THEN a
    ELSE (IF a % 2 = 1 \/ b % 2 = 1 THEN 1 ELSE 0) + 2 * BitOr(a \div 2, b \div 2)

as_u32(x) == Limbs(x, 2)
u32_or(x, y) == [i \in 1..2 |-> BitOr(x[i], y[i])]

\* EFF_FLAG = 0x80000000, defined in the crate root
EFF_FLAG == <<0, 32768>>

\* time::Duration arguments, and c_timeval_new of the crate root
Durations == {[secs |-> 0, nanos |-> 0], [secs |-> 1, nanos |-> 500000000]}
c_timeval_new(d) == [tv_sec |-> d.secs, tv_usec |-> d.nanos \div 1000]

\* CanFrame::new(0x0, &[], false, false): a frame of zeros
ZeroFrame == 0
ZeroFrames == [i \in 1..MAX_NFRAMES |-> ZeroFrame]

\* the TxMsg of filter_id with the identifier written as given
filter_id_msg_PlainId(can_id, ival1, ival2) ==
    [head |-> [opcode |-> RX_SETUP, flags |-> BitOr(SETTIMER, RX_FILTER_ID), count |-> 0,
               ival1 |-> c_timeval_new(ival1), ival2 |-> c_timeval_new(ival2),
               can_id |-> as_u32(can_id), nframes |-> 0],
     frames |-> ZeroFrames]

\* the TxMsg filter_id builds and hands to write(2)
filter_id_msg(can_id, ival1, ival2) ==
    [head |-> [opcode |-> RX_SETUP, flags |-> BitOr(SETTIMER, RX_FILTER_ID), count |-> 0,
               ival1 |-> c_timeval_new(ival1), ival2 |-> c_timeval_new(ival2),
               can_id |-> u32_or(as_u32(can_id), EFF_FLAG), nframes |-> 0],
     frames |-> ZeroFrames]

\* the BcmMsgHead filter_delete builds and hands to write(2)
filter_delete_msg(can_id) ==
    [head |-> [opcode |-> RX_DELETE, flags |-> 0, count |-> 0,
               ival1 |-> c_timeval_new([secs |-> 0, nanos |-> 0]),
               ival2 |-> c_timeval_new([secs |-> 0, nanos |-> 0]),
               can_id |-> as_u32(can_id), nframes |-> 0],
     frames |-> ZeroFrames]

\* every count write(2) may hand back for a buffer of len bytes, given the
\* header-only count hdr the kernel accepts for a request without frames
WriteRvs(hdr, len) == {hdr - 65536, -1, 0, hdr - 1, hdr, hdr + 1, len - 1, len}

\* filter_id that also rejects a write of zero bytes
filter_id_RejectsZero(write_rv, errno) ==
    IF write_rv <= 0
    THEN Err([kind |-> "WriteZero", inner |-> last_os_error(errno)])
    ELSE Ok(Unit)

(***************************************************************************)
(* CanBCMSocket::filter_id: the result for a write(2) that returned        *)
(* write_rv (and left errno behind when it failed).                        *)
(***************************************************************************)
filter_id(write_rv, errno) ==
    IF write_rv < 0
    THEN Err([kind |-> "WriteZero", inner |-> last_os_error(errno)])
    ELSE Ok(Unit)

(***************************************************************************)
(* CanBCMSocket::filter_delete: the result for a write(2) that returned    *)
(* write_rv, on a target of pointer width w.                               *)
(***************************************************************************)
expected_size(w) == size_of(BcmMsgHead(w)) - FrameArray.size

\* filter_delete that only rejects a count below the expected one
filter_delete_AtLeast(write_rv, w) ==
    IF write_rv < expected_size(w)
    THEN Err([kind |-> "WriteZero", wrote |-> write_rv, expected |-> expected_size(w)])
    ELSE Ok(Unit)

filter_delete(write_rv, w) ==
    IF as_usize(write_rv, w) # as_usize(expected_size(w), w)
    THEN Err([kind |-> "WriteZero", wrote |-> write_rv, expected |-> expected_size(w)])
    ELSE Ok(Unit)

(***************************************************************************)
(* Messages.  A message is the header fields and the frames that follow;   *)
(* a frame is stood for by its payload word.                               *)
(***************************************************************************)
FieldNames == <<"opcode", "flags", "count", "ival1", "ival2", "can_id", "nframes">>

ZeroMsg ==
    [opcode |-> 0, flags |-> 0, count |-> 0, ival1 |-> 0, ival2 |-> 0,
     can_id |-> 0, nframes |-> 0, frames |-> <<>>]

\* the notifications the kernel sends in this model
KernelMsgs ==
    {[ZeroMsg EXCEPT !.opcode = RX_CHANGED, !.can_id = 291, !.nframes = 1, !.frames = <<7>>],
     [ZeroMsg EXCEPT !.opcode = RX_TIMEOUT, !.can_id = 1110]}

\* offset of the frame array in BcmMsgHead, and the length of a message on the wire
FramesOffset(w) == OffsetOf(BcmMsgHead(w), Len(BcmMsgHead(w)))
MsgLen(m, w) == FramesOffset(w) + Len(m.frames) * CanFrameSize

\* the receive buffer of read_msg after read(2) stored the first count bytes
\* of data over the zeroed BcmMsgHead: a field holds data's value when all of
\* its bytes were stored, and stays zero otherwise
Decode(count, data, w) ==
    LET got(i) == OffsetOf(HeadFields(w), i) + HeadFields(w)[i].size <= count
        fld(i) == IF got(i) THEN data[FieldNames[i]] ELSE 0
        n == IF count <= FramesOffset(w) THEN 0
             ELSE (count - FramesOffset(w)) \div CanFrameSize
        k == IF n < Len(data.frames) THEN n ELSE Len(data.frames)
    IN  [opcode |-> fld(1), flags |-> fld(2), count |-> fld(3), ival1 |-> fld(4),
         ival2 |-> fld(5), can_id |-> fld(6), nframes |-> fld(7),
         frames |-> SubSeq(data.frames, 1, k)]

\* read_msg that wraps the system error in an error of its own
read_msg_WrapsError(rd, w) ==
    IF rd.count < 0
    THEN Err([kind |-> "Other", os |-> rd.errno])
    ELSE Ok(Decode(rd.count, rd.data, w))

\* read_msg that decides on the errno it finds instead of on read's count
read_msg_ByErrno(rd, w) ==
    IF rd.errno = "EAGAIN" THEN Err(last_os_error(rd.errno))
    ELSE IF rd.count < 0 THEN Err(last_os_error(rd.errno))
    ELSE Ok(Decode(rd.count, rd.data, w))

(***************************************************************************)
(* CanBCMSocket::read_msg: rd is what read(2) did: rd.count its return     *)
(* value, rd.errno the errno found afterwards, rd.data the message whose   *)
(* bytes it stored.                                                        *)
(***************************************************************************)
read_msg(rd, w) ==
    LET msg == IF rd.count >= 0 THEN Decode(rd.count, rd.data, w) ELSE ZeroMsg
        last_error == last_os_error(rd.errno)
    IN  IF rd.count < 0 THEN Err(last_error) ELSE Ok(msg)

\* what read(2) can do on the socket with receive queue q
ReadOutcomes(q, w) ==
    IF q = <<>>
    THEN {[count |-> -1, errno |-> e, data |-> ZeroMsg] : e \in Errnos}
    ELSE {[count |-> MsgLen(Head(q), w), errno |-> "EAGAIN", data |-> Head(q)]}
         \cup {[count |-> -1, errno |-> e, data |-> ZeroMsg] : e \in Errnos \ {"EAGAIN"}}

(***************************************************************************)
(* BcmMsgHead::frames: slice::from_raw_parts(_frames.as_ptr(), _nframes).  *)
(* len is the length of the slice, inside its records that lie in the      *)
(* _frames array (the frames received, then the zeros the buffer was       *)
(* created with), beyond the number of its records that lie past the end   *)
(* of the array.                                                           *)
(***************************************************************************)
frames(m) ==
    LET n == IF m.nframes < MAX_NFRAMES THEN m.nframes ELSE MAX_NFRAMES
    IN  [len |-> m.nframes,
         inside |-> [i \in 1..n |-> IF i <= Len(m.frames) THEN m.frames[i] ELSE ZeroFrame],
         beyond |-> m.nframes - n]

\* a header that announces more frames than the buffer has room for
OversizedMsg ==
    [ZeroMsg EXCEPT !.opcode = RX_CHANGED, !.can_id = 291, !.nframes = MAX_NFRAMES + 1,
                    !.frames = <<7>>]

\* what read(2) can do on a socket whose peer is a stand-in for the kernel:
\* fail, or store any number of bytes of any message
SimReadOutcomes(w) ==
    {[count |-> -1, errno |-> e, data |-> ZeroMsg] : e \in Errnos}
    \cup {[count |-> c, errno |-> e, data |-> m] :
             c \in {0, 8, FramesOffset(w) - 4, FramesOffset(w)}, e \in Errnos,
             m \in KernelMsgs \cup {OversizedMsg}}
    \cup {[count |-> MsgLen(m, w), errno |-> e, data |-> m] :
             e \in Errnos, m \in KernelMsgs \cup {OversizedMsg}}

\* the place of rd in the record of a poll that made no read
NoRead == [count |-> -1, errno |-> "none", data |-> ZeroMsg]

(***************************************************************************)
(* CanBCMSocket::close and Drop for CanBCMSocket.  rv is what close(2)     *)
(* returns.                                                                *)
(***************************************************************************)
close(fd, rv, errno) ==
    [res |-> IF rv # -1 THEN Err(last_os_error(errno)) ELSE Ok(Unit),
     calls |-> <<[call |-> "close", fd |-> fd, arg |-> 0]>>]

\* a Drop that closes the descriptor a second time
drop_Twice(fd, rv, errno) ==
    LET r == close(fd, rv, errno)
    IN  [res |-> Unit, calls |-> r.calls \o r.calls, closeRes |-> r.res]

drop(fd, rv, errno) ==
    LET r == close(fd, rv, errno)
    IN  [res |-> Unit, calls |-> r.calls, closeRes |-> r.res]

(***************************************************************************)
(* futures::Async and Option values, and Stream::poll of BcmStream:        *)
(* readable is what io.poll_read() reports, rd what read(2) does if it is  *)
(* called.  reads counts the read_msg calls made, need_read tells whether  *)
(* io.need_read() was called.                                              *)
(***************************************************************************)
NotReady == [async |-> "NotReady"]
Ready(x) == [async |-> "Ready", item |-> x]
Some(m) == [some |-> TRUE, v |-> m]
None == [some |-> FALSE]

\* poll without the readiness check
StreamPoll_NoReadyCheck(readable, rd, w) ==
    LET r == read_msg(rd, w)
    IN  IF r.tag = "Ok"
        THEN [res |-> Ok(Ready(Some(r.val))), reads |-> 1, need_read |-> FALSE]
        ELSE IF r.err.kind = "WouldBlock"
        THEN [res |-> Ok(NotReady), reads |-> 1, need_read |-> TRUE]
        ELSE [res |-> Err(r.err), reads |-> 1, need_read |-> FALSE]

\* poll that reads a second time after a successful read
StreamPoll_Drains(readable, rd, w) ==
    IF ~readable
    THEN [res |-> Ok(NotReady), reads |-> 0, need_read |-> FALSE]
    ELSE LET r == read_msg(rd, w)
         IN  IF r.tag = "Ok"
             THEN [res |-> Ok(Ready(Some(r.val))), reads |-> 2, need_read |-> FALSE]
             ELSE IF r.err.kind = "WouldBlock"
             THEN [res |-> Ok(NotReady), reads |-> 1, need_read |-> TRUE]
             ELSE [res |-> Err(r.err), reads |-> 1, need_read |-> FALSE]

\* poll that hands every read error to the caller
StreamPoll_WouldBlockIsError(readable, rd, w) ==
    IF ~readable
    THEN [res |-> Ok(NotReady), reads |-> 0, need_read |-> FALSE]
    ELSE LET r == read_msg(rd, w)
         IN  IF r.tag = "Ok"
             THEN [res |-> Ok(Ready(Some(r.val))), reads |-> 1, need_read |-> FALSE]
             ELSE [res |-> Err(r.err), reads |-> 1, need_read |-> FALSE]

\* poll that returns NotReady on a would-block without calling need_read
StreamPoll_NoRearm(readable, rd, w) ==
    IF ~readable
    THEN [res |-> Ok(NotReady), reads |-> 0, need_read |-> FALSE]
    ELSE LET r == read_msg(rd, w)
         IN  IF r.tag = "Ok"
             THEN [res |-> Ok(Ready(Some(r.val))), reads |-> 1, need_read |-> FALSE]
             ELSE IF r.err.kind = "WouldBlock"
             THEN [res |-> Ok(NotReady), reads |-> 1, need_read |-> FALSE]
             ELSE [res |-> Err(r.err), reads |-> 1, need_read |-> FALSE]

\* poll of a stream that ends itself after its first error
StreamPoll_Fused(readable, rd, w) ==
    IF errored
    THEN [res |-> Ok(Ready(None)), reads |-> 0, need_read |-> FALSE]
    ELSE IF ~readable
    THEN [res |-> Ok(NotReady), reads |-> 0, need_read |-> FALSE]
    ELSE LET r == read_msg(rd, w)
         IN  IF r.tag = "Ok"
             THEN [res |-> Ok(Ready(Some(r.val))), reads |-> 1, need_read |-> FALSE]
             ELSE IF r.err.kind = "WouldBlock"
             THEN [res |-> Ok(NotReady), reads |-> 1, need_read |-> TRUE]
             ELSE [res |-> Err(r.err), reads |-> 1, need_read |-> FALSE]

\* poll that ends the stream on a read error
StreamPoll_EndsOnError(readable, rd, w) ==
    IF ~readable
    THEN [res |-> Ok(NotReady), reads |-> 0, need_read |-> FALSE]
    ELSE LET r == read_msg(rd, w)
         IN  IF r.tag = "Ok"
             THEN [res |-> Ok(Ready(Some(r.val))), reads |-> 1, need_read |-> FALSE]
             ELSE IF r.err.kind = "WouldBlock"
             THEN [res |-> Ok(NotReady), reads |-> 1, need_read |-> TRUE]
             ELSE [res |-> Ok(Ready(None)), reads |-> 1, need_read |-> FALSE]

StreamPoll(readable, rd, w) ==
    IF ~readable
    THEN [res |-> Ok(NotReady), reads |-> 0, need_read |-> FALSE]
    ELSE LET r == read_msg(rd, w)
         IN  IF r.tag = "Ok"
             THEN [res |-> Ok(Ready(Some(r.val))), reads |-> 1, need_read |-> FALSE]
             ELSE IF r.err.kind = "WouldBlock"
             THEN [res |-> Ok(NotReady), reads |-> 1, need_read |-> TRUE]
             ELSE [res |-> Err(r.err), reads |-> 1, need_read |-> FALSE]

IsItem(res) == res.tag = "Ok" /\ res.val.async = "Ready" /\ res.val.item.some

Init ==
    /\ ptrWidth \in PointerWidths
    /\ phase = "none"
    /\ sock = NoSock
    /\ osFds = <<>>
    /\ opens = 0
    /\ closeCalls = 0
    /\ syscalls = <<>>
    /\ ret = NoRet
    /\ kq = <<>>
    /\ queued = <<>>
    /\ emitted = <<>>
    /\ readiness = FALSE
    /\ interest = FALSE
    /\ errored = FALSE
    /\ script = <<>>
    /\ woken = TRUE

OpenIfNb ==
    /\ phase = "none"
    /\ opens < MaxOpens
    /\ \E if_index \in IfIndexes, s \in {-1, FreeFd}, f \in {-1, 0}, c \in {-1, 0},
          e \in Errnos :
          LET sys == [socket |-> s, fcntl |-> f, connect |-> c, errno |-> e]
              r == open_if_nb(if_index, sys)
          IN  /\ ret' = [op |-> "open_if_nb", arg |-> [if_index |-> if_index, sys |-> sys],
                         res |-> r.res]
              /\ syscalls' = r.calls
              /\ osFds' = KernelAfter(osFds, r.calls, sys)
              /\ sock' = IF r.res.tag = "Ok" THEN r.res.val ELSE NoSock
              /\ phase' = IF r.res.tag = "Ok" THEN "open" ELSE "none"
    /\ opens' = opens + 1
    /\ UNCHANGED <<ptrWidth, closeCalls, kq, queued, emitted, readiness, interest,
                   errored, script, woken>>

FilterId ==
    /\ phase = "open"
    /\ \E can_id \in CanIds, ival1 \in Durations, ival2 \in Durations,
          write_rv \in WriteRvs(size_of(BcmMsgHeadFrameLess(ptrWidth)), size_of(TxMsg(ptrWidth))),
          e \in Errnos \ {"EAGAIN"} :
          /\ ret' = [op |-> "filter_id",
                     arg |-> [can_id |-> can_id, ival1 |-> ival1, ival2 |-> ival2,
                              write_rv |-> write_rv],
                     buf |-> filter_id_msg(can_id, ival1, ival2),
                     res |-> filter_id(write_rv, e)]
          /\ syscalls' = <<[call |-> "write", fd |-> sock.fd, arg |-> size_of(TxMsg(ptrWidth))]>>
    /\ UNCHANGED <<ptrWidth, phase, sock, osFds, opens, closeCalls, kq, queued, emitted,
                   readiness, interest, errored, script, woken>>

FilterDelete ==
    /\ phase = "open"
    /\ \E can_id \in CanIds,
          write_rv \in WriteRvs(size_of(BcmMsgHeadFrameLess(ptrWidth)), size_of(BcmMsgHead(ptrWidth))) :
          /\ ret' = [op |-> "filter_delete", arg |-> [can_id |-> can_id, write_rv |-> write_rv],
                     buf |-> filter_delete_msg(can_id),
                     res |-> filter_delete(write_rv, ptrWidth)]
          /\ syscalls' = <<[call |-> "write", fd |-> sock.fd, arg |-> size_of(BcmMsgHead(ptrWidth))]>>
    /\ UNCHANGED <<ptrWidth, phase, sock, osFds, opens, closeCalls, kq, queued, emitted,
                   readiness, interest, errored, script, woken>>

\* the kernel effect and the bookkeeping of one Drop of the handle
Dropped(rv, e) ==
    LET d == drop(sock.fd, rv, e)
    IN  /\ syscalls' = d.calls
        /\ closeCalls' = closeCalls + Len(d.calls)
        /\ osFds' = [n \in DOMAIN osFds \ {c.fd : c \in {d.calls[i] : i \in DOMAIN d.calls}} |-> osFds[n]]
        /\ phase' = "dropped"

\* BcmStream::from: PollEvented::new registers the socket with the reactor;
\* when that fails the socket, moved into the call, is dropped
BcmStreamFrom ==
    /\ phase = "open"
    /\ \/ /\ phase' = "stream"
          /\ ret' = [op |-> "from", res |-> Ok(Unit)]
          /\ syscalls' = <<>>
          /\ UNCHANGED <<osFds, closeCalls>>
       \/ \E rv \in {0, -1}, e \in Errnos \ {"EAGAIN"} :
             /\ Dropped(rv, e)
             /\ ret' = [op |-> "from", res |-> Err(last_os_error(e))]
    /\ UNCHANGED <<ptrWidth, sock, opens, kq, queued, emitted, readiness, interest,
                   errored, script, woken>>

\* Drop of the CanBCMSocket, directly or as the field of a dropped BcmStream
Drop ==
    /\ phase \in {"open", "stream"}
    /\ \E rv \in {0, -1}, e \in Errnos \ {"EAGAIN"} :
          /\ Dropped(rv, e)
          /\ ret' = [op |-> "drop", arg |-> [rv |-> rv, owner |-> phase],
                     res |-> drop(sock.fd, rv, e).res,
                     closeRes |-> drop(sock.fd, rv, e).closeRes]
    /\ UNCHANGED <<ptrWidth, sock, opens, kq, queued, emitted, readiness, interest,
                   errored, script, woken>>

\* the kernel queues a notification on the socket
KernelQueue ==
    /\ phase \in {"open", "stream"}
    /\ Len(queued) < MaxQueued
    /\ \E m \in KernelMsgs :
          /\ kq' = Append(kq, m)
          /\ queued' = Append(queued, m)
    /\ UNCHANGED <<ptrWidth, phase, sock, osFds, opens, closeCalls, syscalls, ret, emitted,
                   readiness, interest, errored, script, woken>>

\* the reactor marks the handle readable (a readiness event of the descriptor)
\* and takes the task scheduled for the wakeup, if any
ReactorStep ==
    /\ phase = "stream"
    /\ ~readiness
    /\ readiness' = TRUE
    /\ interest' = FALSE
    /\ UNCHANGED <<ptrWidth, phase, sock, osFds, opens, closeCalls, syscalls, ret, kq, queued,
                   emitted, errored, script>>

ReactorReadable ==
    /\ ReactorStep
    /\ UNCHANGED woken

(***************************************************************************)
(* The scenario of three polls: the reactor reports not readable; then     *)
(* readable but the read would block; then readable with one message       *)
(* queued, which the read returns.  ScriptStep(i, readable, rd, q) tells   *)
(* whether a poll made with these inputs is step i of it.                  *)
(***************************************************************************)
ScriptStep(i, readable, rd, q) ==
    \/ i = 1 /\ ~readable
    \/ i = 2 /\ readable /\ rd.count < 0 /\ rd.errno = "EAGAIN"
    \/ i = 3 /\ readable /\ Len(q) = 1 /\ rd.count >= 0

\* the results of the latest polls that are a run of the scenario's first steps
ScriptAfter(sc, readable, rd, q, res) ==
    IF Len(sc) < 3 /\ ScriptStep(Len(sc) + 1, readable, rd, q)
    THEN Append(sc, [res |-> res, q |-> q])
    ELSE IF ScriptStep(1, readable, rd, q) THEN <<[res |-> res, q |-> q]>>
    ELSE <<>>

\* one call of Stream::poll; rd is what read(2) does if the poll calls it
PollStep ==
    /\ phase = "stream"
    /\ \E rd \in ReadOutcomes(kq, ptrWidth) :
          LET p == StreamPoll(readiness, rd, ptrWidth)
              taken == IF rd.count >= 0
                       THEN (IF p.reads < Len(kq) THEN p.reads ELSE Len(kq))
                       ELSE 0
          IN  /\ ret' = [op |-> "poll",
                         arg |-> [readable |-> readiness, q |-> kq,
                                  rd |-> IF p.reads > 0 THEN rd ELSE NoRead,
                                  need_read |-> p.need_read],
                         res |-> p.res]
              /\ syscalls' = [i \in 1..p.reads |->
                                 [call |-> "read", fd |-> sock.fd,
                                  arg |-> size_of(BcmMsgHead(ptrWidth))]]
              /\ kq' = SubSeq(kq, taken + 1, Len(kq))
              /\ emitted' = IF IsItem(p.res) THEN Append(emitted, p.res.val.item.v)
                            ELSE emitted
              /\ readiness' = IF p.need_read THEN FALSE ELSE readiness
              /\ interest' = (interest \/ ~readiness \/ p.need_read)
              /\ errored' = (errored \/ p.res.tag = "Err")
              /\ script' = ScriptAfter(script, readiness, rd, kq, p.res)
    /\ UNCHANGED <<ptrWidth, phase, sock, osFds, opens, closeCalls, queued>>

\* a poll made by any caller at any time
Poll ==
    /\ PollStep
    /\ UNCHANGED woken

\* one call of read_msg on the handle, against the stand-in kernel; the
\* caller looks at the frames of the message it gets
ReadMsg ==
    /\ phase = "open"
    /\ \E rd \in SimReadOutcomes(ptrWidth) :
          LET r == read_msg(rd, ptrWidth)
          IN  /\ ret' = [op |-> "read_msg", arg |-> rd, res |-> r,
                         view |-> IF r.tag = "Ok" THEN frames(r.val) ELSE frames(ZeroMsg)]
              /\ syscalls' = <<[call |-> "read", fd |-> sock.fd,
                                arg |-> size_of(BcmMsgHead(ptrWidth))]>>
    /\ UNCHANGED <<ptrWidth, phase, sock, osFds, opens, closeCalls, kq, queued, emitted,
                   readiness, interest, errored, script, woken>>

Next ==
    \/ OpenIfNb
    \/ FilterId
    \/ FilterDelete
    \/ BcmStreamFrom
    \/ Drop
    \/ KernelQueue
    \/ ReactorReadable
    \/ Poll

Spec == Init /\ [][Next]_vars

\* the handle read directly, against a stand-in for the kernel
ReadNext ==
    \/ OpenIfNb
    \/ ReadMsg

ReadSpec == Init /\ [][ReadNext]_vars

(***************************************************************************)
(* The stream driven by one task on the reactor.  The task polls when it   *)
(* has been notified; a poll that returns NotReady parks it, any other      *)
(* result makes it poll again.  The reactor notifies the task it finds      *)
(* scheduled when it marks the handle readable.  The descriptor is          *)
(* registered edge-triggered: a message in the receive queue of a handle    *)
(* not marked readable has an event pending, which the reactor delivers.    *)
(***************************************************************************)
LivePoll ==
    /\ woken
    /\ PollStep
    /\ woken' = (ret'.res # Ok(NotReady))

LiveReactor ==
    /\ ReactorStep
    /\ woken' = (woken \/ interest)

\* the readiness event of a message that is waiting in the queue
LiveReactorEvent ==
    /\ kq # <<>>
    /\ LiveReactor

LiveNext ==
    \/ OpenIfNb
    \/ BcmStreamFrom
    \/ KernelQueue
    \/ LiveReactor
    \/ LivePoll

LiveSpec ==
    /\ Init
    /\ [][LiveNext]_vars
    /\ WF_vars(LiveReactorEvent)
    /\ WF_vars(LivePoll)

(***************************************************************************)
(* Properties of BcmStream::poll.                                          *)
(***************************************************************************)
SyscallNames == [i \in DOMAIN syscalls |-> syscalls[i].call]

\* C1: a poll for which poll_read reports the handle not readable returns
\* NotReady and issues no system call: the kernel queue, the descriptor table
\* and the socket are as before the poll.
C1_NotReadableNoRead ==
    [][(Poll /\ ~readiness) =>
          /\ ret'.res = Ok(NotReady)
          /\ syscalls' = <<>>
          /\ kq' = kq
          /\ osFds' = osFds
          /\ sock' = sock]_vars

\* a poll returned NotReady on a not readable handle while a message was queued
C1_Witness ==
    /\ ret.op = "poll"
    /\ ~ret.arg.readable
    /\ ret.res = Ok(NotReady)
    /\ ret.arg.q # <<>>
    /\ kq = ret.arg.q

\* C2: a poll whose read succeeds returns Ready(Some(m)) for the message m at
\* the head of the kernel queue, and every poll issues at most one read and
\* takes at most one message off the queue.
C2_OneMessagePerPoll ==
    [][Poll =>
          /\ Len(syscalls') <= 1
          /\ Len(kq') >= Len(kq) - 1
          /\ (readiness /\ ret'.arg.rd.count >= 0) =>
                /\ ret'.res = Ok(Ready(Some(Head(kq))))
                /\ kq' = Tail(kq)]_vars

\* a poll emitted the first of two queued messages and left the second queued
C2_Witness ==
    /\ ret.op = "poll"
    /\ IsItem(ret.res)
    /\ Len(ret.arg.q) = 2
    /\ kq = Tail(ret.arg.q)
    /\ SyscallNames = <<"read">>

\* C3: a poll whose read fails with the would-block error calls need_read
\* (the readiness is cleared and the task is scheduled for a read wakeup) and
\* returns NotReady; no poll returns a would-block as its error, and none
\* returns Ready(None) for it.
C3_WouldBlockRearms ==
    [][Poll =>
          /\ (readiness /\ ret'.arg.rd.count < 0 /\ ret'.arg.rd.errno = "EAGAIN") =>
                /\ ret'.res = Ok(NotReady)
                /\ ret'.arg.need_read
                /\ ~readiness'
                /\ interest'
          /\ ret'.res.tag = "Err" => ret'.res.err.kind # "WouldBlock"]_vars

\* a readable poll hit a would-block read and returned NotReady
C3_Witness ==
    /\ ret.op = "poll"
    /\ ret.arg.readable
    /\ ret.arg.rd.count < 0
    /\ ret.arg.rd.errno = "EAGAIN"
    /\ ret.res = Ok(NotReady)
    /\ ~readiness

\* C4 as stated: once a poll has returned an error, no later poll produces
\* an element.
C4_ErrorIsTerminal ==
    errored => ~(ret.op = "poll" /\ IsItem(ret.res))

\* C4, amended: the poll that returns an error produces no element and takes
\* no message off the queue, and the stream keeps no record of the error: a
\* later poll that finds the handle readable and a message queued produces
\* that message as the next element unless its read fails, and one that finds
\* the handle not readable returns NotReady.
C4_ErrorNotLatched ==
    [][Poll =>
          /\ ret'.res.tag = "Err" => (emitted' = emitted /\ kq' = kq)
          /\ (errored /\ readiness /\ kq # <<>> /\ ret'.res.tag # "Err") =>
                (ret'.res = Ok(Ready(Some(Head(kq)))) /\ emitted' = Append(emitted, Head(kq)))
          /\ (errored /\ ~readiness) => ret'.res = Ok(NotReady)]_vars

\* a poll produced an element after an earlier poll had returned an error
C4_Witness ==
    /\ errored
    /\ ret.op = "poll"
    /\ IsItem(ret.res)

\* C5: the messages emitted so far, followed by the messages still in the
\* kernel queue, are the messages the kernel queued, in the order it queued
\* them: the emitted ones are a prefix, none reordered, duplicated or lost.
C5_EmittedIsPrefix ==
    queued = emitted \o kq

\* two different messages were emitted
C5_Witness ==
    /\ Len(emitted) = 2
    /\ emitted[1] # emitted[2]
    /\ errored

\* C6: three consecutive polls made with the reactor not readable, then
\* readable with a would-block read, then readable with one queued message
\* return NotReady, NotReady and Ready(Some(that message)).
C6_Scenario ==
    Len(script) = 3 =>
        /\ script[1].res = Ok(NotReady)
        /\ script[2].res = Ok(NotReady)
        /\ script[3].res = Ok(Ready(Some(script[3].q[1])))

\* the three polls of the scenario have been made
C6_Witness ==
    /\ Len(script) = 3
    /\ ret.op = "poll"
    /\ emitted = script[3].q

(***************************************************************************)
(* Properties of the socket handle.                                        *)
(***************************************************************************)
FailedStep(sys) ==
    IF sys.socket = -1 THEN 1
    ELSE IF sys.fcntl = -1 THEN 2
    ELSE IF sys.connect # 0 THEN 3
    ELSE 0

\* C7: open_if_nb calls socket, fcntl, connect in this order and stops at the
\* first that fails, returning an error that carries the system error; it
\* returns a handle only when all three succeeded, and the descriptor of that
\* handle is non-blocking and connected to the given interface index.
C7_OpenOrder ==
    ret.op = "open_if_nb" =>
        LET sys == ret.arg.sys
            k == FailedStep(sys)
        IN  /\ SyscallNames = SubSeq(<<"socket", "fcntl", "connect">>, 1, Len(syscalls))
            /\ k = 0 =>
                  /\ Len(syscalls) = 3
                  /\ ret.res.tag = "Ok"
                  /\ phase = "open"
                  /\ sock = [fd |-> sys.socket]
                  /\ osFds[sock.fd] = [nonblock |-> TRUE, if_index |-> ret.arg.if_index]
            /\ k > 0 =>
                  /\ Len(syscalls) = k
                  /\ ret.res = Err([kind |-> ErrorKind(sys.errno), os |-> sys.errno])
                  /\ sock = NoSock

\* open_if_nb failed in fcntl and did not go on to connect
C7_Witness ==
    /\ ret.op = "open_if_nb"
    /\ ret.res.tag = "Err"
    /\ SyscallNames = <<"socket", "fcntl">>

\* C8: a handle that has been destroyed, directly or with the stream that
\* owns it, had close called on its descriptor exactly once, a live handle
\* never; and the destruction returns nothing to the caller whatever close
\* returned.
C8_ClosedOnce ==
    /\ phase = "dropped" => closeCalls = 1
    /\ phase \in {"open", "stream"} => closeCalls = 0
    /\ ret.op = "drop" =>
          /\ ret.res = Unit
          /\ syscalls = <<[call |-> "close", fd |-> sock.fd, arg |-> 0]>>

\* a stream was dropped and close failed
C8_Witness ==
    /\ phase = "dropped"
    /\ ret.op = "drop"
    /\ ret.arg.owner = "stream"
    /\ ret.arg.rv = -1
    /\ closeCalls = 1

(***************************************************************************)
(* Properties of the request encoders.                                     *)
(***************************************************************************)
\* C9 as stated: filter_id returns success only for a full write; every other
\* count the write call returns is reported as an error.
C9_NonFullWriteFails ==
    ret.op = "filter_id" =>
        (ret.res.tag = "Ok" <=> ret.arg.write_rv = size_of(TxMsg(ptrWidth)))

\* C9, amended: filter_id hands the whole TxMsg buffer to one write call and
\* returns an error exactly when that call returns a negative count; every
\* count from zero up, short or full, is a success.
C9_NegativeWriteFails ==
    ret.op = "filter_id" =>
        /\ syscalls = <<[call |-> "write", fd |-> sock.fd, arg |-> size_of(TxMsg(ptrWidth))]>>
        /\ ret.res.tag = "Err" <=> ret.arg.write_rv < 0
        /\ ret.res.tag = "Err" => ret.res.err.kind = "WriteZero"
        /\ ret.res.tag = "Ok" => ret.res = Ok(Unit)

\* filter_id returned success for a write of zero bytes
C9_Witness ==
    /\ ret.op = "filter_id"
    /\ ret.arg.write_rv = 0
    /\ ret.res.tag = "Ok"

\* C10: filter_delete returns success exactly when the write call returned
\* size_of(BcmMsgHead) less the size of the array of 256 frames; for every
\* other count, negative ones included, it returns an error that names the
\* count returned and the count expected.
C10_DeleteCount ==
    ret.op = "filter_delete" =>
        LET expected == size_of(BcmMsgHead(ptrWidth)) - MAX_NFRAMES * CanFrameSize
        IN  IF ret.arg.write_rv = expected
            THEN ret.res = Ok(Unit)
            ELSE ret.res = Err([kind |-> "WriteZero", wrote |-> ret.arg.write_rv,
                                expected |-> expected])

\* filter_delete returned the mismatch error for a failed write
C10_Witness ==
    /\ ret.op = "filter_delete"
    /\ ret.arg.write_rv = -1
    /\ ret.res.tag = "Err"
    /\ ret.res.err.wrote = -1

\* C11: for every identifier and every pair of intervals, the buffer filter_id
\* hands to write has opcode RX_SETUP (5), flags SETTIMER | RX_FILTER_ID (0x21),
\* count 0, the identifier with bit 31 (EFF_FLAG) set, frame count 0, and 256
\* frames of zeros after the header.
C11_FilterIdBuffer ==
    ret.op = "filter_id" =>
        LET h == ret.buf.head
            id == ret.arg.can_id
        IN  /\ h.opcode = 5
            /\ h.flags = 33
            /\ h.count = 0
            /\ h.can_id = <<id % 65536, ((id \div 65536) % 32768) + 32768>>
            /\ h.nframes = 0
            /\ Len(ret.buf.frames) = 256
            /\ \A i \in 1..256 : ret.buf.frames[i] = 0

\* filter_id built the buffer for the largest 29-bit identifier and an
\* interval that is not zero
C11_Witness ==
    /\ ret.op = "filter_id"
    /\ ret.arg.can_id = 536870911
    /\ ret.arg.ival1.secs = 1
    /\ ret.buf.head.can_id = <<65535, 40959>>

(***************************************************************************)
(* Properties of read_msg and frames.                                      *)
(***************************************************************************)
\* C12: read_msg returns a message for every count of zero or more that read
\* returns, the message read stored when it stored all of it; for a negative
\* count it returns the system error as found, so that EAGAIN is still of
\* kind WouldBlock.
C12_ReadMsgResult ==
    ret.op = "read_msg" =>
        LET rd == ret.arg
        IN  /\ rd.count >= 0 =>
                  /\ ret.res.tag = "Ok"
                  /\ rd.count >= MsgLen(rd.data, ptrWidth) => ret.res.val = rd.data
            /\ rd.count < 0 =>
                  ret.res = Err([kind |-> IF rd.errno = "EAGAIN" THEN "WouldBlock" ELSE "Other",
                                 os |-> rd.errno])

\* read_msg returned a message for a read of zero bytes
C12_Witness ==
    /\ ret.op = "read_msg"
    /\ ret.arg.count = 0
    /\ ret.res = Ok(ZeroMsg)

\* C13 as stated: a read that succeeds with fewer bytes than a header is
\* rejected by read_msg.
C13_ShortReadRejected ==
    (ret.op = "read_msg" /\ ret.arg.count >= 0
        /\ ret.arg.count < size_of(BcmMsgHeadFrameLess(ptrWidth)))
    => ret.res.tag = "Err"

\* C14 as stated: the view frames() gives of a message read_msg returned has
\* as many records as the header's frame count and lies within the array of
\* 256 frames.
C14_FramesWithinArray ==
    (ret.op = "read_msg" /\ ret.res.tag = "Ok") =>
        /\ ret.view.len = ret.res.val.nframes
        /\ ret.view.len <= 256
        /\ ret.view.beyond = 0

(***************************************************************************)
(* Properties of the layout.                                               *)
(***************************************************************************)
\* C15: on either pointer width, BcmMsgHeadFrameLess and the part of
\* BcmMsgHead before its frames are larger than the seven header fields laid
\* out alone by 4 bytes on the 32-bit build and by nothing on the 64-bit one;
\* so BcmMsgHead less its 256 frames has the size of BcmMsgHeadFrameLess, the
\* count filter_delete accepts, and TxMsg has the size of BcmMsgHead.
C15_PaddingSizes ==
    LET w == ptrWidth
        pad == IF w = 32 THEN 4 ELSE 0
    IN  /\ size_of(BcmMsgHeadFrameLess(w)) - size_of(HeadFields(w)) = pad
        /\ FramesOffset(w) - OffsetOf(HeadFields(w) \o <<FrameArray>>, 8) = pad
        /\ size_of(BcmMsgHead(w)) - 256 * 16 = size_of(BcmMsgHeadFrameLess(w))
        /\ size_of(TxMsg(w)) = size_of(BcmMsgHead(w))
        /\ (ret.op = "filter_delete" /\ ret.res = Ok(Unit)) =>
               ret.arg.write_rv = size_of(BcmMsgHeadFrameLess(w))

\* on the 32-bit build filter_delete accepted a write of 40 bytes
C15_Witness ==
    /\ ptrWidth = 32
    /\ ret.op = "filter_delete"
    /\ ret.res = Ok(Unit)
    /\ ret.arg.write_rv = 40

(***************************************************************************)
(* Further properties of the stream.                                       *)
(***************************************************************************)
\* C16: whatever the reactor and the socket do, a poll of the stream returns
\* NotReady, Ready(Some(message)) or an error, and never Ready(None).
C16_NeverEnds ==
    ret.op = "poll" =>
        /\ ret.res # Ok(Ready(None))
        /\ \/ ret.res = Ok(NotReady)
           \/ ret.res.tag = "Err"
           \/ \E m \in KernelMsgs : ret.res = Ok(Ready(Some(m)))

\* after an element, a poll returned an error
C16_Witness ==
    /\ ret.op = "poll"
    /\ ret.res.tag = "Err"
    /\ Len(emitted) >= 1

(***************************************************************************)
(* Further properties of the handle.                                       *)
(***************************************************************************)
\* C18 as stated: when open_if_nb returns an error, the descriptor socket()
\* gave it is no longer open.
C18_FailedOpenClosesSocket ==
    (ret.op = "open_if_nb" /\ ret.res.tag = "Err") =>
        /\ ret.arg.sys.socket \notin DOMAIN osFds
        /\ (ret.arg.sys.socket # -1 =>
               \E i \in 1..Len(syscalls) :
                   syscalls[i].call = "close" /\ syscalls[i].fd = ret.arg.sys.socket)

\* C20 as stated: the close helper returns an error when close(2) returned
\* -1 and Ok when it did not.
C20_CloseResult ==
    ret.op = "drop" => (ret.closeRes.tag = "Err" <=> ret.arg.rv = -1)

\* C19 as stated: the request filter_delete sends for an identifier carries
\* the identifier field that the request filter_id sends for it carries.
C19_DeleteAddressesInstall ==
    ret.op = "filter_delete" =>
        \A ival1 \in Durations, ival2 \in Durations :
            ret.buf.head.can_id = filter_id_msg(ret.arg.can_id, ival1, ival2).head.can_id

(***************************************************************************)
(* Liveness of the stream.                                                 *)
(***************************************************************************)
\* C17: with a reactor that delivers pending events and a task that polls
\* whenever it is notified, a task parked by a NotReady poll is scheduled for
\* a read wakeup, and every message the kernel queues on the socket of a
\* stream is eventually emitted by poll, unless a poll returns a read error.
C17_NoLostWakeup ==
    /\ [](phase = "stream" /\ ~woken => interest)
    /\ \A n \in 1..MaxQueued :
          (phase = "stream" /\ Len(queued) >= n) ~> (Len(emitted) >= n \/ errored)

\* the task was parked by a poll whose read would block; a message arrived
\* afterwards and the reactor has notified the task
C17_Witness ==
    /\ ret.op = "poll"
    /\ ret.res = Ok(NotReady)
    /\ ret.arg.need_read
    /\ kq # <<>>
    /\ readiness
    /\ woken

====
